---- MODULE Spec2Model ----
(***************************************************************************)
(* State-machine model of the cognihacks backend:                          *)
(*   backend/emotiv_backend.py  the confusion-level register, its producer *)
(*                              thread (simulate_confusion or              *)
(*                              stream_confusion) and its readers;         *)
(*   backend/main.py            the /confusion read endpoint;              *)
(*   backend/ai/llm_client.py   LLMClient: credential, mock mode, status   *)
(*                              and generate_help_suggestions.             *)
(*                                                                         *)
(* Python values that may be unbound (a local not yet assigned, a call     *)
(* that has not returned) are sequences of length at most one: <<>> is     *)
(* "no value", <<v>> is the value v.                                       *)
(***************************************************************************)
EXTENDS Integers, Sequences, FiniteSets, TLC

VARIABLES
    confusion_level,  \* emotiv_backend.confusion_level, the global register
    USE_EMOTIV,       \* emotiv_backend.USE_EMOTIV, the policy flag
    pc,               \* position of the producer thread
    value,            \* argument of the producer's set_confusion_level call in progress
    oscillation,      \* simulate_confusion's local, its latest draw
    ret,              \* what the reader's last get_confusion_level() returned
    written,          \* argument of the caller's last set_confusion_level(x)
    served,         \* what the last read_confusion() returned (main.py)
    history,          \* an observer's record: the producer's commits, the reads matched
    api_key,          \* LLMClient.api_key
    mock_mode,        \* LLMClient.mock_mode
    last_call,        \* the LLMClient method that returned last
    status,           \* what the last get_status() returned
    gen               \* the last generate_help_suggestions call: inputs and outcome

regvars == <<confusion_level, USE_EMOTIV, pc, value, oscillation, ret, written,
             served, history>>
llmvars == <<api_key, mock_mode, last_call, status, gen>>
vars == <<confusion_level, USE_EMOTIV, pc, value, oscillation, ret, written,
          served, history,
          api_key, mock_mode, last_call, status, gen>>

(***************************************************************************)
(* Bounds of the model.                                                    *)
(***************************************************************************)
\* how far outside 0..100 the arguments a caller passes to set_confusion_level range
MaxOver == 4
\* longest list a backend response holds
MaxLen == 3
\* number of commits of the producer an observer records
MaxLog == 21

(***************************************************************************)
(* emotiv_backend.py                                                       *)
(***************************************************************************)
\* Python's builtin max and min on two integers
max(a, b) == IF a >= b THEN a ELSE b
min(a, b) == IF a <= b THEN a ELSE b

\* confusion_level = 67  (module level)
DefaultLevel == 67

\* faulty variant of get_confusion_level: the value bound when the module was
\* imported (from emotiv_backend import confusion_level)
get_confusion_level_stale == DefaultLevel

\* get_confusion_level(): the register as it is now
get_confusion_level == confusion_level

\* faulty variants of set_confusion_level: the clamp without its floor, without its ceiling
set_confusion_level_nofloor(v) == min(100, v)
set_confusion_level_noceiling(v) == max(0, v)

\* set_confusion_level(value): the value the global is bound to
set_confusion_level(v) == max(0, min(100, v))

\* faulty variant of randint: the lower end is one too low
randint_wide(a, b) == (a - 1)..b

\* random.randint(a, b): any integer of a..b
randint(a, b) == a..b

\* the observer's record when nothing is recorded, and when recording starts
NoHistory == [on |-> FALSE, log |-> <<>>, seen |-> 0]
Recording == [on |-> TRUE, log |-> <<>>, seen |-> 0]

\* the record after the producer committed v (set_confusion_level, line 26)
record_store(h, v) == IF h.on THEN [h EXCEPT !.log = Append(@, v)] ELSE h

\* the commits a read of v can be: those holding v, none before the commit
\* the previous read was matched to
matches(h, v) == {i \in max(h.seen, 1)..Len(h.log) : h.log[i] = v}

\* the record after a reader obtained v (get_confusion_level, line 21): v is
\* matched to the earliest commit it can be
record_read(h, v) ==
    IF h.on /\ matches(h, v) # {}
    THEN [h EXCEPT !.seen = CHOOSE i \in matches(h, v) :
                                \A j \in matches(h, v) : i <= j]
    ELSE h

\* simulate_confusion, line 40: set_confusion_level(0) is called
simulate_confusion_reset ==
    /\ pc = "reset"
    /\ value' = <<0>>
    /\ pc' = "reset_set"
    /\ UNCHANGED <<confusion_level, USE_EMOTIV, oscillation, ret, written>>
    /\ UNCHANGED <<served, history>>
    /\ UNCHANGED llmvars

\* faulty variant of simulate_confusion_tick: the branch for 76..80 pulls the
\* level back by 5
simulate_confusion_tick_decay ==
    /\ pc = "loop"
    /\ LET current_level == get_confusion_level IN
       IF current_level > 80
       THEN \E d \in randint(-3, 3) :
               /\ oscillation' = <<d>>
               /\ value' = <<current_level + d>>
       ELSE IF current_level <= 75
       THEN /\ value' = <<current_level + 5>>
            /\ UNCHANGED oscillation
       ELSE /\ value' = <<current_level - 5>>
            /\ UNCHANGED oscillation
    /\ pc' = "tick_set"
    /\ UNCHANGED <<confusion_level, USE_EMOTIV, ret, written>>
    /\ UNCHANGED <<served, history>>
    /\ UNCHANGED llmvars

\* faulty variant of simulate_confusion_tick: the oscillation band starts at 80
\* instead of above 80
simulate_confusion_tick_from80 ==
    /\ pc = "loop"
    /\ LET current_level == get_confusion_level IN
       IF current_level >= 80
       THEN \E d \in randint(-3, 3) :
               /\ oscillation' = <<d>>
               /\ value' = <<current_level + d>>
       ELSE /\ value' = <<current_level + 5>>
            /\ UNCHANGED oscillation
    /\ pc' = "tick_set"
    /\ UNCHANGED <<confusion_level, USE_EMOTIV, ret, written>>
    /\ UNCHANGED <<served, history>>
    /\ UNCHANGED llmvars

\* simulate_confusion, lines 44-57: read the level, take one of the three
\* branches, call set_confusion_level
simulate_confusion_tick ==
    /\ pc = "loop"
    /\ LET current_level == get_confusion_level IN
       IF current_level > 80
       THEN \E d \in randint(-3, 3) :
               /\ oscillation' = <<d>>
               /\ value' = <<current_level + d>>
       ELSE IF current_level <= 75
       THEN /\ value' = <<current_level + 5>>
            /\ UNCHANGED oscillation
       ELSE /\ value' = <<current_level + 5>>
            /\ UNCHANGED oscillation
    /\ pc' = "tick_set"
    /\ UNCHANGED <<confusion_level, USE_EMOTIV, ret, written>>
    /\ UNCHANGED <<served, history>>
    /\ UNCHANGED llmvars

\* faulty variant of simulate_confusion_sleep: the loop ends once the level is 100
simulate_confusion_sleep_exit ==
    /\ pc = "sleep"
    /\ pc' = IF confusion_level >= 100 THEN "done" ELSE "loop"
    /\ UNCHANGED <<confusion_level, USE_EMOTIV, value, oscillation, ret, written>>
    /\ UNCHANGED <<served, history>>
    /\ UNCHANGED llmvars

\* simulate_confusion, line 59: time.sleep(sleep) returns
simulate_confusion_sleep ==
    /\ pc = "sleep"
    /\ pc' = "loop"
    /\ UNCHANGED <<confusion_level, USE_EMOTIV, value, oscillation, ret, written>>
    /\ UNCHANGED <<served, history>>
    /\ UNCHANGED llmvars

\* stream_confusion, line 32: set_confusion_level(random.randint(20, 80)) is called
stream_confusion_tick ==
    /\ pc = "stream"
    /\ \E r \in randint(20, 80) : value' = <<r>>
    /\ pc' = "stream_set"
    /\ UNCHANGED <<confusion_level, USE_EMOTIV, oscillation, ret, written>>
    /\ UNCHANGED <<served, history>>
    /\ UNCHANGED llmvars

\* stream_confusion, lines 33-37: print, then time.sleep(sleep) returns
stream_confusion_sleep ==
    /\ pc = "stream_sleep"
    /\ pc' = "stream"
    /\ UNCHANGED <<confusion_level, USE_EMOTIV, value, oscillation, ret, written>>
    /\ UNCHANGED <<served, history>>
    /\ UNCHANGED llmvars

\* where the producer continues after its set_confusion_level call returns
after_set(p) ==
    IF p = "reset_set" THEN "loop"
    ELSE IF p = "tick_set" THEN "sleep"
    ELSE "stream_sleep"

\* set_confusion_level, line 26, run by the producer: the global is rebound
\* to the clamped argument in one store
producer_store ==
    /\ pc \in {"reset_set", "tick_set", "stream_set"}
    /\ history.on => Len(history.log) < MaxLog
    /\ confusion_level' = set_confusion_level(value[1])
    /\ history' = record_store(history, confusion_level')
    /\ value' = <<>>
    /\ pc' = after_set(pc)
    /\ UNCHANGED <<USE_EMOTIV, oscillation, ret, written, served>>
    /\ UNCHANGED llmvars

\* the producer thread: every step of simulate_confusion or stream_confusion
Producer ==
    \/ simulate_confusion_reset
    \/ simulate_confusion_tick
    \/ simulate_confusion_sleep
    \/ stream_confusion_tick
    \/ stream_confusion_sleep
    \/ producer_store

\* a reader thread calls get_confusion_level()
reader_get ==
    /\ ret' = <<get_confusion_level>>
    /\ history' = record_read(history, ret'[1])
    /\ UNCHANGED <<confusion_level, USE_EMOTIV, pc, value, oscillation, written,
                   served>>
    /\ UNCHANGED llmvars

\* faulty variant of InitRegister: the startup test of USE_EMOTIV is inverted
InitRegister_inverted ==
    /\ confusion_level = DefaultLevel
    /\ USE_EMOTIV \in BOOLEAN
    /\ pc = IF USE_EMOTIV THEN "reset" ELSE "stream"
    /\ value = <<>>
    /\ oscillation = <<>>
    /\ ret = <<>>
    /\ written = <<>>
    /\ served = <<>>

\* module import: the register holds its default and the thread chosen by
\* USE_EMOTIV (lines 62-65) is at its first statement.  USE_EMOTIV is the
\* configuration flag of line 8, edited in the source: it ships False, and
\* both settings are modelled.
InitRegister ==
    /\ confusion_level = DefaultLevel
    /\ USE_EMOTIV \in BOOLEAN
    /\ pc = IF USE_EMOTIV THEN "stream" ELSE "reset"
    /\ value = <<>>
    /\ oscillation = <<>>
    /\ ret = <<>>
    /\ written = <<>>
    /\ served = <<>>

\* main.py, lines 16-18: read_confusion() calls get_confusion_level() and
\* returns the mapping built from what it returned
read_confusion ==
    /\ ret' = <<get_confusion_level>>
    /\ served' = <<[confusionLevel |-> ret'[1]]>>
    /\ history' = record_read(history, ret'[1])
    /\ UNCHANGED <<confusion_level, USE_EMOTIV, pc, value, oscillation, written>>
    /\ UNCHANGED llmvars

\* a caller outside the producer calls set_confusion_level(x): the whole call
caller_set ==
    /\ \E x \in (0 - MaxOver)..(100 + MaxOver) :
          /\ confusion_level' = set_confusion_level(x)
          /\ written' = <<x>>
    /\ ret' = <<>>
    /\ UNCHANGED <<USE_EMOTIV, pc, value, oscillation>>
    /\ UNCHANGED <<served, history>>
    /\ UNCHANGED llmvars

(***************************************************************************)
(* Python values of ai/llm_client.py.  An object is a record [t, s, items]:*)
(* t its type name, s its text (str, int), items its elements (list).      *)
(* A backend response is [obj, keys, sugg]: the object, and when it is a   *)
(* dict its key set and the object stored under "suggestions".             *)
(***************************************************************************)
PyStr(x) == [t |-> "str", s |-> x, items |-> <<>>]
PyInt(x) == [t |-> "int", s |-> x, items |-> <<>>]
PyList(l) == [t |-> "list", s |-> "", items |-> l]
PyNone == [t |-> "NoneType", s |-> "", items |-> <<>>]
PyDict == [t |-> "dict", s |-> "", items |-> <<>>]
PySet == [t |-> "set", s |-> "", items |-> <<>>]

\* the strings a backend list may hold
Hints == {PyStr("Draw a diagram."), PyStr("Restate the question.")}

\* the lists a backend may send: every list of at most n strings, and two
\* lists that hold a non-string
Lists(n) ==
    UNION {[1..k -> Hints] : k \in 0..n}
    \cup {<<PyInt("7")>>, <<PyStr("Draw a diagram."), PyInt("7")>>}

\* the objects a backend may store under "suggestions"
Payloads ==
    {PyList(l) : l \in Lists(MaxLen)} \cup {PyStr("Draw a diagram."), PyNone, PyDict}

\* the shapes of backend response: a list, a dict with or without the key
\* "suggestions", a string, None
Responses ==
    {[obj |-> PyList(l), keys |-> {}, sugg |-> PyNone] : l \in Lists(MaxLen)}
    \cup {[obj |-> PyDict, keys |-> {"suggestions"}, sugg |-> p] : p \in Payloads}
    \cup {[obj |-> PyDict, keys |-> k, sugg |-> PyNone] : k \in {{}, {"content", "model"}}}
    \cup {[obj |-> PyStr(x), keys |-> {}, sugg |-> PyNone] :
             x \in {"", "Try drawing a diagram."}}
    \cup {[obj |-> PyNone, keys |-> {}, sugg |-> PyNone]}

\* __init__, lines 14 and 22: the default of OPENAI_API_KEY
Placeholder == "your-api-key-here"

\* the credentials the environment or a caller may supply
Keys == {Placeholder, "", "sk-proj-1"}

\* generate_help_suggestions, lines 50-54: the fallback suggestions
Fallback ==
    PyList(<<PyStr("Break the problem into smaller steps."),
             PyStr("Review the relevant concepts first."),
             PyStr("Try a simpler example to build understanding.")>>)

\* faulty variant of suggestions_from: a bare string response is wrapped into a list
suggestions_from_wrapstr(response) ==
    IF response.obj.t = "list" THEN response.obj
    ELSE IF response.obj.t = "dict" /\ "suggestions" \in response.keys
         THEN response.sugg
    ELSE IF response.obj.t = "str" THEN PyList(<<response.obj>>)
    ELSE Fallback

\* faulty variant of suggestions_from: any dict is looked up with .get("suggestions")
suggestions_from_anydict(response) ==
    IF response.obj.t = "list" THEN response.obj
    ELSE IF response.obj.t = "dict" THEN response.sugg
    ELSE Fallback

\* faulty variant of suggestions_from: a list response is cut to its first two elements
suggestions_from_cut(response) ==
    IF response.obj.t = "list"
    THEN PyList(SubSeq(response.obj.items, 1, min(2, Len(response.obj.items))))
    ELSE IF response.obj.t = "dict" /\ "suggestions" \in response.keys
         THEN response.sugg
    ELSE Fallback

\* generate_help_suggestions, lines 44-54: what is returned for a response
suggestions_from(response) ==
    IF response.obj.t = "list" THEN response.obj
    ELSE IF response.obj.t = "dict" /\ "suggestions" \in response.keys
         THEN response.sugg
    ELSE Fallback

\* the contexts a caller passes: a dict as its sequence of <<key, object>> items
Contexts ==
    {<<>>,
     << <<"topic", PyStr("fractions")>>, <<"attempts", PyInt("3")>> >>,
     << <<"seen", PySet>> >>}

\* the confusion levels a caller passes, in thousandths.  None of them but the
\* binary-exact 0.125 ends in a 5, so that rounding a float's decimal
\* expansion is rounding the number itself.
Levels == {0, 125, 1000}

\* f"{confusion_level:.2f}" (line 29) of m/1000: rounded to hundredths, an
\* exact tie to the even neighbour
format_2f(m) ==
    LET h == m \div 10
        r == m % 10
        q == IF r > 5 \/ (r = 5 /\ h % 2 = 1) THEN h + 1 ELSE h
    IN  ToString(q \div 100) \o "." \o ToString((q \div 10) % 10) \o ToString(q % 10)

\* json.dumps of one object of a context: [ok, text]; a set is not serializable
json_dumps_value(v) ==
    IF v.t = "str" THEN [ok |-> TRUE, text |-> "\"" \o v.s \o "\""]
    ELSE IF v.t = "int" THEN [ok |-> TRUE, text |-> v.s]
    ELSE [ok |-> FALSE, text |-> ""]

RECURSIVE json_dumps_items(_)
\* json.dumps of the items of a dict, joined by ", "
json_dumps_items(items) ==
    IF items = <<>> THEN [ok |-> TRUE, text |-> ""]
    ELSE LET head == json_dumps_value(items[1][2])
             rest == json_dumps_items(Tail(items))
         IN  IF ~head.ok \/ ~rest.ok THEN [ok |-> FALSE, text |-> ""]
             ELSE [ok |-> TRUE,
                   text |-> "\"" \o items[1][1] \o "\": " \o head.text
                            \o (IF Tail(items) = <<>> THEN "" ELSE ", " \o rest.text)]

\* json.dumps(context) (line 31): [ok, text], ok false when it raises TypeError
json_dumps(context) ==
    LET inner == json_dumps_items(context)
    IN  IF inner.ok THEN [ok |-> TRUE, text |-> "{" \o inner.text \o "}"]
        ELSE [ok |-> FALSE, text |-> ""]

\* the errors a live backend call raises: transport, authentication, timeout
BackendErrors == {"ClientConnectionError", "AuthenticationError", "TimeoutError"}

\* analyze_text(prompt): the outcomes of the backend call.  Mock mode returns
\* a fixed descriptive string without network I/O; live mode calls the
\* external API, which returns any response shape or raises.
analyze_text(mock, prompt) ==
    IF mock
    THEN {[raised |-> "", network |-> FALSE,
           response |-> [obj |-> PyStr("This appears to be an educational screen."),
                         keys |-> {}, sugg |-> PyNone]]}
    ELSE {[raised |-> "", network |-> TRUE, response |-> r] : r \in Responses}
         \cup {[raised |-> e, network |-> TRUE,
                response |-> [obj |-> PyNone, keys |-> {}, sugg |-> PyNone]] :
                  e \in BackendErrors}

\* the record of one generate_help_suggestions call
call_record(context, level, mock, prompt, o, outcome, error, result) ==
    [context |-> context, confusion_level |-> level, mock |-> mock,
     prompt |-> prompt, network |-> o.network, response |-> o.response,
     outcome |-> outcome, error |-> error, value |-> result]

\* the backend outcome of a call that never reached the backend
NotCalled ==
    [raised |-> "", network |-> FALSE,
     response |-> [obj |-> PyNone, keys |-> {}, sugg |-> PyNone]]

\* generate_help_suggestions(context, confusion_level), lines 26-54: the prompt
\* is built, the backend awaited, its response turned into the returned list;
\* an exception of json.dumps or of the backend call leaves the coroutine
generate_help_suggestions ==
    /\ last_call # "none"
    /\ \E context \in Contexts, level \in Levels :
          LET dumped == json_dumps(context)
              prompt == [level |-> format_2f(level), context |-> dumped.text]
          IN  IF ~dumped.ok
              THEN gen' = <<call_record(context, level, mock_mode, prompt, NotCalled,
                                        "raise", "TypeError", PyNone)>>
              ELSE \E o \in analyze_text(mock_mode, prompt) :
                      IF o.raised # ""
                      THEN gen' = <<call_record(context, level, mock_mode, prompt, o,
                                                "raise", o.raised, PyNone)>>
                      ELSE gen' = <<call_record(context, level, mock_mode, prompt, o,
                                                "return", "",
                                                suggestions_from(o.response))>>
    /\ last_call' = "generate_help_suggestions"
    /\ UNCHANGED <<api_key, mock_mode, status>>
    /\ UNCHANGED regvars

\* faulty variant of set_api_key: the key is replaced and mock_mode is left as it was
set_api_key_stale ==
    /\ last_call # "none"
    /\ \E k \in Keys : api_key' = k
    /\ last_call' = "set_api_key"
    /\ UNCHANGED <<mock_mode, status, gen>>
    /\ UNCHANGED regvars

\* set_api_key(api_key), lines 74-78
set_api_key ==
    /\ last_call # "none"
    /\ \E k \in Keys :
          /\ api_key' = k
          /\ mock_mode' = (k = Placeholder)
    /\ last_call' = "set_api_key"
    /\ UNCHANGED <<status, gen>>
    /\ UNCHANGED regvars

\* get_status(), lines 80-89
get_status ==
    /\ last_call # "none"
    /\ status' = <<[mock_mode |-> mock_mode,
                    model |-> "gpt-4-vision-preview",
                    text_model |-> "gpt-4",
                    base_url |-> "https://api.openai.com/v1",
                    max_tokens |-> 500,
                    temperature |-> "0.7"]>>
    /\ last_call' = "get_status"
    /\ UNCHANGED <<api_key, mock_mode, gen>>
    /\ UNCHANGED regvars

\* LLMClient.__init__, lines 13-22: the key is the environment's or the
\* placeholder, mock_mode is derived from it
LLMClient_init ==
    /\ api_key \in Keys
    /\ mock_mode = (api_key = Placeholder)
    /\ last_call = "__init__"
    /\ status = <<>>
    /\ gen = <<>>

\* no LLMClient has been constructed: llm_client.py only defines the class
NoClient ==
    /\ api_key = ""
    /\ mock_mode = FALSE
    /\ last_call = "none"
    /\ status = <<>>
    /\ gen = <<>>

(***************************************************************************)
(* Specifications.                                                         *)
(***************************************************************************)
\* the backend process: the producer thread and readers of the register
Init == InitRegister /\ history = NoHistory /\ NoClient

Next ==
    \/ simulate_confusion_reset
    \/ simulate_confusion_tick
    \/ simulate_confusion_sleep
    \/ stream_confusion_tick
    \/ stream_confusion_sleep
    \/ producer_store
    \/ reader_get

Spec == Init /\ [][Next]_vars

\* the producer is a thread of its own: the interpreter keeps scheduling it
FairSpec == Spec /\ WF_vars(Producer)

\* the register's contract alone: a caller writes and reads while the producer
\* thread has not been scheduled yet
NextWrite ==
    \/ caller_set
    \/ reader_get

SpecWrite == Init /\ [][NextWrite]_vars

\* an LLMClient and its callers
InitLLM == InitRegister /\ ~USE_EMOTIV /\ history = NoHistory /\ LLMClient_init

NextLLM ==
    \/ generate_help_suggestions
    \/ set_api_key
    \/ get_status

SpecLLM == InitLLM /\ [][NextLLM]_vars

\* the served application: the producer thread and requests to /confusion
NextEndpoint ==
    \/ simulate_confusion_reset
    \/ simulate_confusion_tick
    \/ simulate_confusion_sleep
    \/ stream_confusion_tick
    \/ stream_confusion_sleep
    \/ producer_store
    \/ read_confusion

SpecEndpoint == Init /\ [][NextEndpoint]_vars

\* the shipped configuration (USE_EMOTIV = False, line 8) with an observer
\* recording the first MaxLog commits of the producer and the reads
InitOrder == InitRegister /\ ~USE_EMOTIV /\ history = Recording /\ NoClient

NextOrder ==
    \/ simulate_confusion_reset
    \/ simulate_confusion_tick
    \/ simulate_confusion_sleep
    \/ producer_store
    \/ reader_get

SpecOrder == InitOrder /\ [][NextOrder]_vars

FairSpecOrder == SpecOrder /\ WF_vars(Producer)

(***************************************************************************)
(* Properties of the register (emotiv_backend.py).                         *)
(***************************************************************************)
\* C1: set_confusion_level(x) followed by get_confusion_level() with no write
\* in between returns x clamped into 0..100, for x below, inside and above
\* the range.
C1_WriteThenRead ==
    (written # <<>> /\ ret # <<>>) =>
        ret[1] = (IF written[1] < 0 THEN 0
                  ELSE IF written[1] > 100 THEN 100
                  ELSE written[1])

\* C1 witness: a caller wrote 104 and then read 100.
C1_Witness == written = <<104>> /\ ret = <<100>>

\* C2: whatever the producer is doing, a value a reader obtains is an
\* integer of 0..100, and it is the value committed before the write in
\* progress or the clamped value that write commits.
C2_ReadsCommitted ==
    [][reader_get =>
        /\ ret'[1] \in 0..100
        /\ ret'[1] \in {confusion_level}
              \cup (IF value = <<>> THEN {}
                    ELSE {IF value[1] < 0 THEN 0
                          ELSE IF value[1] > 100 THEN 100
                          ELSE value[1]})]_vars

\* C2 witness: the producer is inside set_confusion_level(103), not yet
\* stored, and the reader holds 100, the value committed before.
C2_Witness == pc = "tick_set" /\ value = <<103>> /\ ret = <<100>>

\* C9: under the Simulated policy the register stays in 0..100, and a tick
\* taken from a level below 81 publishes a value not lower than that level.
C9_SimulatedBounded ==
    /\ [](~USE_EMOTIV => confusion_level \in 0..100)
    /\ [][(~USE_EMOTIV /\ pc = "tick_set" /\ confusion_level < 81)
             => confusion_level' >= confusion_level]_vars

\* C9 witness: the tick taken from 80 has published 85.
C9_Witness ==
    ~USE_EMOTIV /\ pc = "sleep" /\ confusion_level = 85 /\ oscillation = <<>>

\* C10: the producer can always take another step, and under fair scheduling
\* it stores into the register again and again.
C10_ProducerRunsForever ==
    /\ [](ENABLED Producer)
    /\ []<><<producer_store>>_vars

\* C10 witness: the simulated producer is at the top of its loop with the
\* register at the ceiling, after a draw of 3.
C10_Witness ==
    ~USE_EMOTIV /\ pc = "loop" /\ confusion_level = 100 /\ oscillation = <<3>>

\* C11: the values a reader obtains are, in order, a subsequence (repeats
\* and skips allowed) of the values the producer committed, and a read made
\* after a commit returns that commit's value or a later one.
C11_ReadsFollowCommits ==
    [][reader_get =>
        /\ matches(history, ret'[1]) # {}
        /\ (history.log # <<>> => ret'[1] = history.log[Len(history.log)])]_vars

\* C12: read_confusion returns the mapping whose confusionLevel is the
\* register's value at the call, and leaves the register and the producer's
\* state as they were.
C12_EndpointReflectsRegister ==
    [][read_confusion =>
        /\ served' = <<[confusionLevel |-> confusion_level]>>
        /\ UNCHANGED <<confusion_level, USE_EMOTIV, pc, value, oscillation>>]_vars

\* C12 witness: the endpoint returned 100 and the producer has since entered
\* set_confusion_level(103).
C12_Witness ==
    /\ served = <<[confusionLevel |-> 100]>>
    /\ confusion_level = 100
    /\ pc = "tick_set"
    /\ value = <<103>>

\* C13: a tick of the Simulated policy writes the clamp of current + d, d in
\* -3..3, when current > 80, and the clamp of current + 5 otherwise; after
\* the reset the register changes in no other step.
C13_TickRule ==
    /\ [][(~USE_EMOTIV /\ pc = "tick_set" /\ pc' = "sleep") =>
             LET clamp(x) == IF x < 0 THEN 0 ELSE IF x > 100 THEN 100 ELSE x IN
             IF confusion_level > 80
             THEN \E d \in -3..3 : confusion_level' = clamp(confusion_level + d)
             ELSE confusion_level' = clamp(confusion_level + 5)]_vars
    /\ [][(~USE_EMOTIV /\ pc \notin {"reset", "reset_set"}
              /\ confusion_level' # confusion_level)
             => (pc = "tick_set" /\ pc' = "sleep")]_vars

\* C13 witness: a tick with draw 2 has published the ceiling.
C13_Witness ==
    ~USE_EMOTIV /\ pc = "sleep" /\ confusion_level = 100 /\ oscillation = <<2>>

\* C14: a tick of the Simulated policy that lowers the level started above 80
\* and drew a negative number.
C14_NoAutomaticDescent ==
    [][(~USE_EMOTIV /\ pc = "tick_set" /\ confusion_level' < confusion_level) =>
          /\ confusion_level > 80
          /\ oscillation # <<>>
          /\ oscillation[1] < 0]_vars

\* C14 witness: a tick with draw -3 has lowered the level to 78.
C14_Witness ==
    ~USE_EMOTIV /\ pc = "sleep" /\ confusion_level = 78 /\ oscillation = <<-3>>

\* C15: under the Simulated policy every read made before the producer's
\* first tick is published returns 0.
C15_InitialStateIsZero ==
    [][(reader_get /\ Len(history.log) <= 1) => ret'[1] = 0]_vars

\* C16: the one producer thread runs the policy USE_EMOTIV selects, the flag
\* never changes, and the register changes in no step but a store of the
\* producer; a request to the endpoint, which reads the register, does not.
C16_SingleWriter ==
    /\ [](pc \in (IF USE_EMOTIV
                  THEN {"stream", "stream_set", "stream_sleep"}
                  ELSE {"reset", "reset_set", "loop", "tick_set", "sleep"}))
    /\ [][USE_EMOTIV' = USE_EMOTIV]_vars
    /\ [][confusion_level' # confusion_level => producer_store]_vars
    /\ [][read_confusion => confusion_level' = confusion_level]_vars

\* C16 witness: under the Telemetry policy the endpoint returned the default
\* and the producer has since published 20.
C16_Witness ==
    /\ USE_EMOTIV
    /\ pc = "stream_sleep"
    /\ confusion_level = 20
    /\ served = <<[confusionLevel |-> 67]>>

\* C18: under the Simulated policy a level above 80 is only held after the
\* reset, and from then on the register stays in 78..100.  Stated as the
\* step property that carries it: after the reset, a level of 78 or more is
\* followed by a level of 78..100.
C18_FloorAfterPeak ==
    /\ [](~USE_EMOTIV /\ confusion_level > 80 => pc \notin {"reset", "reset_set"})
    /\ [][(~USE_EMOTIV /\ pc \notin {"reset", "reset_set"} /\ confusion_level >= 78)
             => confusion_level' \in 78..100]_vars

\* C18 witness: the level has come down from above 80 to the floor, 78.
C18_Witness ==
    ~USE_EMOTIV /\ pc = "loop" /\ confusion_level = 78 /\ oscillation = <<-3>>

\* C19: after the reset the ticks 1..17 publish 5, 10, ..., 85, no draw is
\* made before 85 is published, and under fair scheduling the register
\* exceeds 80.
C19_ClimbTo85 ==
    /\ [](\A k \in 1..17 : Len(history.log) > k => history.log[k + 1] = 5 * k)
    /\ [](Len(history.log) <= 17 => oscillation = <<>>)
    /\ <>(confusion_level > 80)

\* C19 witness: the 17th tick has published 85 and no draw was made.
C19_Witness ==
    /\ Len(history.log) = 18
    /\ history.log[18] = 85
    /\ pc = "sleep"
    /\ oscillation = <<>>

(***************************************************************************)
(* Properties of LLMClient (ai/llm_client.py).                             *)
(***************************************************************************)
\* C3: generate_help_suggestions never fails outward: every call returns,
\* and a call whose backend response has no recognised shape returns the
\* fallback.
C3_NeverFailsOutward ==
    gen # <<>> =>
        /\ gen[1].outcome = "return"
        /\ (gen[1].response.obj.t \notin {"list", "dict"} => gen[1].value = Fallback)

\* C4: a response that is neither a list nor a dict holding "suggestions"
\* is answered by exactly the three fallback strings, in their order.
C4_UnrecognisedGivesFallback ==
    (/\ gen # <<>>
     /\ gen[1].outcome = "return"
     /\ gen[1].response.obj.t # "list"
     /\ ~(gen[1].response.obj.t = "dict" /\ "suggestions" \in gen[1].response.keys))
    => gen[1].value =
          [t |-> "list", s |-> "",
           items |-> <<[t |-> "str", s |-> "Break the problem into smaller steps.",
                        items |-> <<>>],
                       [t |-> "str", s |-> "Review the relevant concepts first.",
                        items |-> <<>>],
                       [t |-> "str", s |-> "Try a simpler example to build understanding.",
                        items |-> <<>>]>>]

\* C4 witness: the backend answered with an empty dict and the call returned
\* three items.
C4_Witness ==
    /\ gen # <<>>
    /\ gen[1].outcome = "return"
    /\ gen[1].response.obj.t = "dict"
    /\ gen[1].response.keys = {}
    /\ Len(gen[1].value.items) = 3

\* C5: a list response is returned unchanged; a dict holding "suggestions"
\* is answered by the object stored under that key, never by the fallback.
C5_ListAndDictPassThrough ==
    (gen # <<>> /\ gen[1].outcome = "return") =>
        /\ (gen[1].response.obj.t = "list" => gen[1].value = gen[1].response.obj)
        /\ ((gen[1].response.obj.t = "dict" /\ "suggestions" \in gen[1].response.keys)
               => gen[1].value = gen[1].response.sugg)

\* C5 witness: the backend answered with a list of three strings, the first
\* two different, and the call returned it.
C5_Witness ==
    /\ gen # <<>>
    /\ gen[1].outcome = "return"
    /\ gen[1].response.obj.t = "list"
    /\ Len(gen[1].response.obj.items) = 3
    /\ gen[1].response.obj.items[1] # gen[1].response.obj.items[2]
    /\ gen[1].value.items = gen[1].response.obj.items

\* C6: every value generate_help_suggestions returns is a list of 2 to 3
\* strings.
C6_AlwaysTwoOrThreeStrings ==
    (gen # <<>> /\ gen[1].outcome = "return") =>
        /\ gen[1].value.t = "list"
        /\ Len(gen[1].value.items) \in 2..3
        /\ \A i \in 1..Len(gen[1].value.items) : gen[1].value.items[i].t = "str"

C8_MockModeFollowsKey ==
    /\ mock_mode = (api_key = "your-api-key-here")
    /\ (last_call = "get_status" =>
           /\ status # <<>>
           /\ status[1].mock_mode = (api_key = "your-api-key-here"))

\* C8 witness: a call ran in mock mode, the key was then set to a live one,
\* and get_status reports live mode.
C8_Witness ==
    /\ gen # <<>>
    /\ gen[1].mock
    /\ api_key = "sk-proj-1"
    /\ last_call = "get_status"
    /\ status = <<[mock_mode |-> FALSE,
                   model |-> "gpt-4-vision-preview",
                   text_model |-> "gpt-4",
                   base_url |-> "https://api.openai.com/v1",
                   max_tokens |-> 500,
                   temperature |-> "0.7"]>>

====
